---- MODULE Spec2Model ----
(***************************************************************************)
(* Negotiation core of the scheduling assistant: NegotiationOrchestrator   *)
(* (agents/negotiation_orchestrator.py) driving the scheduler policy       *)
(* (agents/scheduler_agent.py) and the participant policies                *)
(* (agents/participant_agent.py), the communication bridge                 *)
(* (messaging/communication_system.py) that turns an outcome into messages,*)
(* and the calendar functions (calender/availability.py,                   *)
(* calender/constraints.py), each checked on its own inputs.               *)
(*                                                                         *)
(* Dicts are records (a key is present iff it is in the DOMAIN), lists are *)
(* sequences, ISO timestamps are strings, scores are tenths (7 = 0.7).     *)
(* The language-model calls are the inputs: every answer a policy can give *)
(* is drawn from a small set of answers of the shapes the prompts ask for. *)
(***************************************************************************)
EXTENDS Integers, Sequences, FiniteSets, TLC

(* ---------------------------- bounds ---------------------------------- *)

\* how many participant agents may be registered
MaxParticipants == 2

(* ------------------------ program constants --------------------------- *)

\* self.max_rounds = 3
DefaultMaxRounds == 3
\* "confidence_score": 0.5 of the built-in slot
DefaultSlotConfidence == 5
\* proposed_slot.get("confidence", 0.7)
MissingConfidence == 7
\* proposed_slot["rank"] = 1
MissingRank == 1
\* current_slot.get("confidence_score", 0.8)
SuccessConfidence == 8
\* "confidence_score": 0.0
ZeroConfidence == 0
\* self.flexibility_score > 0.7
FlexibilityThreshold == 7
\* profile.get("flexibility_score", 0.5)
DefaultFlexibility == 5

(* ------------------------------ inputs -------------------------------- *)

\* the keys of create_participant_profiles(), in its order
AllNames == <<"Alice", "Bob", "Charlie">>

Names == {AllNames[i] : i \in 1..MaxParticipants}

\* create_participant_profiles(): the flexibility_score of each profile
create_participant_profiles ==
    [n \in {"Alice", "Bob", "Charlie"} |->
        [flexibility_score |-> CASE n = "Alice" -> 8
                                 [] n = "Bob" -> 4
                                 [] OTHER -> 9]]

\* ParticipantAgent.__init__: self.flexibility_score
flexibility_score(name) ==
    IF "flexibility_score" \in DOMAIN create_participant_profiles[name]
    THEN create_participant_profiles[name].flexibility_score
    ELSE DefaultFlexibility

\* values self.max_rounds is given by a caller before run_negotiation
RoundLimits == {0, 1}

\* candidate slots as the callers build them: the enrich_slot shape and the
\* demo shape (with a confidence); slot_id is the position in the list
CandidateA == [slot_id |-> 0, start_utc |-> "T14", end_utc |-> "T15"]

CandidateB == [slot_id |-> 1, start_utc |-> "T09", end_utc |-> "T10", confidence |-> 6]

CandidateLists == {<<>>, <<CandidateA, CandidateB>>}

\* selected_slot_id values of a scheduler answer: null, an int, a string
Null == [kind |-> "null"]

IntId(i) == [kind |-> "int", index |-> i]

StrId(s) == [kind |-> "str", name |-> s]

SlotIdValues == {Null, IntId(1), IntId(2), IntId(-1), StrId("slot_1")}

\* answers of run_scheduler_agent: parsed JSON of the shape the prompt asks
\* for, or the record returned when json.loads fails
SchedulerAnswers ==
    {[decision |-> "confirm_time", selected_slot_id |-> s, reasoning |-> "best fit"] :
        s \in SlotIdValues}
    \cup {[decision |-> "negotiate_or_reschedule", selected_slot_id |-> Null,
           reasoning |-> "no viable slot"]}
    \cup {[response |-> "raw", error |-> "Failed to parse JSON response"]}

\* alternative slots a participant offers when it counter-proposes
CounterSlots(name) ==
    CASE name = "Alice" -> <<[start |-> "T16", end |-> "T17"]>>
      [] name = "Bob" -> <<[start |-> "T11", end |-> "T12", reason |-> "morning"],
                           [start |-> "T12", end |-> "T13"]>>
      [] OTHER -> <<[start |-> "T18", end |-> "T19"]>>

\* respond_to_proposal, json.JSONDecodeError branch
FallbackResponse(name) ==
    [decision |-> IF flexibility_score(name) > FlexibilityThreshold
                  THEN "counter_propose" ELSE "accept",
     reasoning |-> "Unable to parse detailed response, using fallback based on flexibility",
     flexibility |-> flexibility_score(name),
     response_content |-> "raw"]

\* respond_to_proposal: what json.loads returns for an answer of the shape
\* the prompt asks for
ParsedResponses(name) ==
    {[decision |-> "accept", reasoning |-> "works"],
     [decision |-> "decline", reasoning |-> "unable"],
     [decision |-> "counter_propose", reasoning |-> "prefer another time",
      alternative_slots |-> CounterSlots(name)]}

\* respond_to_proposal(meeting_request, proposed_slot, context): the parsed
\* answer, or the fallback when the model's text does not parse
respond_to_proposal(name, parses) ==
    IF parses THEN ParsedResponses(name) ELSE {FallbackResponse(name)}

\* propose_alternatives, json.JSONDecodeError branch
FallbackAlternatives ==
    [alternative_slots |->
         <<[start |-> "2026-01-16T10:00:00", end |-> "2026-01-16T11:00:00",
            reason |-> "morning preference"],
           [start |-> "2026-01-17T14:00:00", end |-> "2026-01-17T15:00:00",
            reason |-> "afternoon option"]>>,
     preference_explanation |-> "these slots align with my working hours",
     response_content |-> "raw"]

\* an alternative slot that states a confidence of its own
RatedSlot == [start |-> "T20", end |-> "T21", confidence_score |-> 9]

\* propose_alternatives(meeting_request, rejected_slot): parsed answers (no
\* list, an empty list, some slots, a slot with a confidence), or the fallback
propose_alternatives(name, parses) ==
    IF parses
    THEN {[preference_explanation |-> "none"],
          [alternative_slots |-> <<>>, preference_explanation |-> "none"],
          [alternative_slots |-> CounterSlots(name), preference_explanation |-> "better"],
          [alternative_slots |-> <<RatedSlot>>, preference_explanation |-> "best"]}
    ELSE {FallbackAlternatives}

(* ------------------------------ helpers ------------------------------- *)

\* dict.get(key, default)
Get(d, key, default) == IF key \in DOMAIN d THEN d[key] ELSE default

\* the names of a list in the order of create_participant_profiles
InProfileOrder(S) == SelectSeq(AllNames, LAMBDA n : n \in S)

Range(s) == {s[i] : i \in DOMAIN s}

(* ------------------------------- state -------------------------------- *)

VARIABLES
    participants,           \* self.participants: the keys in insertion order
    max_rounds,             \* self.max_rounds
    negotiation_history,    \* self.negotiation_history
    pc,                     \* where run_negotiation stands
    meeting_request,        \* argument of run_negotiation
    candidate_slots,        \* argument of run_negotiation (the caller's list)
    initial_decision,       \* answer of the scheduler policy
    current_slot,           \* the slot being proposed
    round_num,              \* loop variable of the round loop
    idx,                    \* position in the loop over self.participants
    participant_responses,  \* responses of the current round, by name
    all_accepted,
    counter_proposals,
    all_alternatives,       \* _handle_no_initial_slots
    returned,               \* the outcome records run_negotiation has returned
    policy_calls,           \* the calls made to the policies: arguments and answer
    unparseable             \* the participants whose model output does not parse as JSON

\* the communication bridge (messaging/communication_system.py)
VARIABLES
    messages                \* what _generate_outcome_messages returned or raised

\* the calendar functions (calender/availability.py, calender/constraints.py)
VARIABLES
    events,                 \* compute_free_slots: the busy intervals
    work_start_utc,
    work_end_utc,
    free_slots,             \* the list compute_free_slots returned
    slots_a,                \* intersect_two_users: first argument
    slots_b,                \* intersect_two_users: second argument
    intersections,          \* the list intersect_two_users returned
    all_free,               \* the free-slot lists intersected so far, one per participant
    users,                  \* disruption_score: flexibility by user
    users_timezones,        \* timezone_fairness_score: UTC offset by user
    scores,                 \* the scores computed so far
    called                  \* the calendar functions that have returned, in call order

VARIABLES
    given,                  \* run_negotiation: what the list passed as candidate_slots held at the call
    other                   \* a second orchestrator, while the caller is not stepping it

calendar == <<events, work_start_utc, work_end_utc, free_slots, slots_a, slots_b,
              intersections, all_free, users, users_timezones, scores, called>>

vars == <<participants, max_rounds, negotiation_history, pc, meeting_request,
          candidate_slots, initial_decision, current_slot, round_num, idx,
          participant_responses, all_accepted, counter_proposals,
          all_alternatives, returned, policy_calls, unparseable, given, other,
          messages, calendar>>

NoValue == [kind |-> "unset"]

NoResponses == [n \in {} |-> NoValue]

\* compute_free_slots has no arguments yet
NoFreeSlots ==
    /\ events = <<>>
    /\ work_start_utc = 0
    /\ work_end_utc = 0
    /\ free_slots = <<>>

\* intersect_two_users has no arguments yet
NoIntersections ==
    /\ slots_a = <<>>
    /\ slots_b = <<>>
    /\ intersections = <<>>
    /\ all_free = <<>>

\* the score functions have no arguments yet
NoScores ==
    /\ users = NoResponses
    /\ users_timezones = NoResponses
    /\ scores = NoResponses

\* no calendar function is in use
NoCalendar ==
    /\ NoFreeSlots
    /\ NoIntersections
    /\ NoScores
    /\ called = <<>>

\* NegotiationOrchestrator.__init__
Constructed ==
    /\ participants = <<>>
    /\ max_rounds = DefaultMaxRounds
    /\ negotiation_history = <<>>
    /\ pc = "idle"
    /\ meeting_request = NoValue
    /\ candidate_slots = <<>>
    /\ initial_decision = NoValue
    /\ current_slot = NoValue
    /\ round_num = 0
    /\ idx = 0
    /\ participant_responses = NoResponses
    /\ all_accepted = TRUE
    /\ counter_proposals = <<>>
    /\ all_alternatives = <<>>
    /\ returned = <<>>
    /\ policy_calls = <<>>
    /\ unparseable = {}
    /\ given = <<>>

\* NegotiationOrchestrator.__init__, for the orchestrator held in other
Fresh ==
    [participants |-> <<>>, max_rounds |-> DefaultMaxRounds, negotiation_history |-> <<>>,
     pc |-> "idle", meeting_request |-> NoValue, initial_decision |-> NoValue,
     current_slot |-> NoValue, round_num |-> 0, idx |-> 0,
     participant_responses |-> NoResponses, all_accepted |-> TRUE,
     counter_proposals |-> <<>>, all_alternatives |-> <<>>, returned |-> <<>>,
     policy_calls |-> <<>>, unparseable |-> {}, given |-> <<>>]

\* SchedulingCommunicationSystem.__init__: a fresh orchestrator, no message yet
Init ==
    /\ Constructed
    /\ other = Fresh
    /\ messages = NoValue
    /\ NoCalendar

locals == <<unparseable, meeting_request, given, candidate_slots, initial_decision, current_slot,
            round_num, idx, participant_responses, all_accepted,
            counter_proposals, all_alternatives>>

\* position of a name in create_participant_profiles
ProfileIndex(name) == CHOOSE i \in DOMAIN AllNames : AllNames[i] = name

\* the orders callers register participants in: the order of the profiles
\* dict, or its reverse
RegistrationOrder(names) ==
    \/ \A i, j \in DOMAIN names : i < j => ProfileIndex(names[i]) < ProfileIndex(names[j])
    \/ \A i, j \in DOMAIN names : i < j => ProfileIndex(names[i]) > ProfileIndex(names[j])

\* add_participant(name, profile): a new key goes last, an existing key keeps
\* its place
add_participant(name) ==
    /\ pc = "idle"
    /\ participants' = IF name \in Range(participants) THEN participants
                       ELSE Append(participants, name)
    /\ RegistrationOrder(participants')
    /\ UNCHANGED <<messages, other, calendar, policy_calls, max_rounds, negotiation_history, pc, returned, locals>>

\* orchestrator.max_rounds = m, set by the caller of run_negotiation
set_max_rounds(m) ==
    /\ pc = "idle"
    /\ max_rounds' = m
    /\ UNCHANGED <<messages, other, calendar, policy_calls, participants, negotiation_history, pc, returned, locals>>

\* run_negotiation entered: the arguments are bound and the scheduler input
\* is built; for this negotiation the language model of the participants in
\* garbled answers with text that is no JSON
run_negotiation(cands, garbled) ==
    /\ pc = "idle"
    /\ unparseable' = garbled
    /\ meeting_request' = [title |-> "Product Strategy Review",
                           participants |-> InProfileOrder(Range(participants))]
    /\ candidate_slots' = cands
    /\ given' = cands
    /\ pc' = "scheduler"
    /\ UNCHANGED <<messages, other, calendar, policy_calls, participants, max_rounds, negotiation_history, returned,
                   initial_decision, current_slot, round_num, idx,
                   participant_responses, all_accepted, counter_proposals,
                   all_alternatives>>

(* ----------------------- calls to the policies ------------------------ *)

\* self.negotiation_history[-3:]
LastThree(history) ==
    IF Len(history) <= 3 THEN history ELSE SubSeq(history, Len(history) - 2, Len(history))

\* run_scheduler_agent(scheduler_input, scheduler_prompt, self.api_key) and
\* how the call ended
SchedulerCall(ended) ==
    [callee |-> "scheduler", method |-> "run_scheduler_agent",
     input_payload |-> [meeting_request |-> meeting_request,
                        candidate_slots |-> candidate_slots,
                        participants |-> participants]] @@ ended

\* agent.respond_to_proposal(meeting_request, current_slot, {"round": ...,
\* "history": ...}) and its answer
RespondCall(name, answer) ==
    [callee |-> name, method |-> "respond_to_proposal",
     meeting_request |-> meeting_request, proposed_slot |-> current_slot,
     context |-> [round |-> round_num, history |-> LastThree(negotiation_history)],
     answer |-> answer]

\* agent.propose_alternatives(meeting_request, {"reason": "no_initial_slots"})
\* and its answer
AlternativesCall(name, answer) ==
    [callee |-> name, method |-> "propose_alternatives",
     meeting_request |-> meeting_request,
     rejected_slot |-> [reason |-> "no_initial_slots"], answer |-> answer]

(* --------------------- scheduler's initial proposal ------------------- *)

\* candidate_slots[i] for an int i: Python accepts -len .. len-1
PyIndexOK(s, i) == -Len(s) <= i /\ i < Len(s)

\* the 1-based position candidate_slots[i] reads
PyIndexPos(s, i) == IF i >= 0 THEN i + 1 ELSE Len(s) + i + 1

\* the dict literal used when candidate_slots is empty
BuiltInSlot ==
    [start |-> "2026-01-16T10:00:00Z", end |-> "2026-01-16T11:00:00Z",
     confidence_score |-> DefaultSlotConfidence]

\* "Extract proposed slot": the 1-based position in candidate_slots of the
\* slot that is proposed, 0 when the built-in slot is used
ProposedPosition(decision, cands) ==
    LET id == Get(decision, "selected_slot_id", Null)
        first == IF cands # <<>> THEN 1 ELSE 0
    IN  IF id # Null
        THEN IF id.kind = "int"
             THEN IF PyIndexOK(cands, id.index)
                  THEN PyIndexPos(cands, id.index)
                  ELSE first            \* IndexError caught
             ELSE first                 \* not an int: candidate_slots[0]
        ELSE first

\* dict with key k set to v
SetKey(d, k, v) == (k :> v) @@ d

\* "Normalize slot keys": done on the proposed slot itself
NormalizeSlot(slot, decision) ==
    LET s1 == IF "start_utc" \in DOMAIN slot /\ "start" \notin DOMAIN slot
              THEN SetKey(slot, "start", slot.start_utc) ELSE slot
        s2 == IF "end_utc" \in DOMAIN s1 /\ "end" \notin DOMAIN s1
              THEN SetKey(s1, "end", s1.end_utc) ELSE s1
        s3 == IF "confidence_score" \notin DOMAIN s2
              THEN SetKey(s2, "confidence_score", Get(s2, "confidence", MissingConfidence))
              ELSE s2
        s4 == IF "reasoning" \notin DOMAIN s3
              THEN SetKey(s3, "reasoning",
                          Get(decision, "reasoning",
                              "Best available slot based on participant availability"))
              ELSE s3
    IN  IF "rank" \notin DOMAIN s4 THEN SetKey(s4, "rank", MissingRank) ELSE s4

\* the history entry appended by run_negotiation
HistoryEntry(r, agent, action, content) ==
    [round |-> r, agent |-> agent, action |-> action, content |-> content]

\* the return after the round loop
IncompleteOutcome(history) ==
    [success |-> FALSE, status |-> "incomplete", rounds_completed |-> max_rounds,
     confidence_score |-> ZeroConfidence, consensus_reached |-> FALSE,
     negotiation_history |-> history, history |-> history]

\* the outcomes returned so far hold the list self.negotiation_history itself
\* ("history": self.negotiation_history), so they show what is appended to it
Aliased(outcomes, history) ==
    [i \in DOMAIN outcomes |->
        [outcomes[i] EXCEPT !.negotiation_history = history, !.history = history]]

LoopHeader_short(r, history) ==
    IF r < max_rounds
    THEN /\ pc' = "collect"
         /\ round_num' = r
         /\ idx' = 1
         /\ participant_responses' = NoResponses
         /\ all_accepted' = TRUE
         /\ counter_proposals' = <<>>
         /\ returned' = Aliased(returned, history)
    ELSE /\ pc' = "done"
         /\ returned' = Append(Aliased(returned, history), IncompleteOutcome(history))
         /\ UNCHANGED <<round_num, idx, participant_responses, all_accepted,
                        counter_proposals>>

\* "for round_num in range(1, self.max_rounds + 1)": the next iteration r
\* starts, or the loop is over and the trailing return is taken
LoopHeader(r, history) ==
    IF r <= max_rounds
    THEN /\ pc' = "collect"
         /\ round_num' = r
         /\ idx' = 1
         /\ participant_responses' = NoResponses
         /\ all_accepted' = TRUE
         /\ counter_proposals' = <<>>
         /\ returned' = Aliased(returned, history)
    ELSE /\ pc' = "done"
         /\ returned' = Append(Aliased(returned, history), IncompleteOutcome(history))
         /\ UNCHANGED <<round_num, idx, participant_responses, all_accepted,
                        counter_proposals>>

\* run_scheduler_agent(scheduler_input, scheduler_prompt, self.api_key): the
\* function of scheduler_agent.py takes two parameters, so this call with
\* three arguments raises TypeError and run_negotiation ends without a result
scheduler_raises ==
    /\ pc = "scheduler"
    /\ pc' = "raised"
    /\ policy_calls' = Append(policy_calls, SchedulerCall([raised |-> "TypeError"]))
    /\ UNCHANGED <<messages, other, calendar, participants, max_rounds, negotiation_history, returned, locals>>

\* a scheduler policy that takes the three arguments answers "no good slots":
\* the decision is recorded and _handle_no_initial_slots starts polling
scheduler_no_viable_slot(d) ==
    /\ pc = "scheduler"
    /\ Get(d, "decision", "") = "negotiate_or_reschedule"
    /\ initial_decision' = d
    /\ negotiation_history' =
           Append(negotiation_history, HistoryEntry(0, "scheduler", "initial_proposal", d))
    /\ pc' = "alternatives"
    /\ idx' = 1
    /\ all_alternatives' = <<>>
    /\ policy_calls' = Append(policy_calls, SchedulerCall([answer |-> d]))
    /\ returned' = Aliased(returned, negotiation_history')
    /\ UNCHANGED <<messages, other, calendar, unparseable, participants, max_rounds, meeting_request, given,
                   candidate_slots, current_slot, round_num,
                   participant_responses, all_accepted, counter_proposals>>

\* any other answer: the decision is recorded, the proposed slot is picked
\* and normalized, and the round loop is entered
scheduler_proposes(d) ==
    /\ pc = "scheduler"
    /\ Get(d, "decision", "") # "negotiate_or_reschedule"
    /\ initial_decision' = d
    /\ LET history == Append(negotiation_history,
                             HistoryEntry(0, "scheduler", "initial_proposal", d))
           pos == ProposedPosition(d, candidate_slots)
           proposed_slot == NormalizeSlot(IF pos = 0 THEN BuiltInSlot
                                          ELSE candidate_slots[pos], d)
       IN  /\ negotiation_history' = history
           /\ candidate_slots' = IF pos = 0 THEN candidate_slots
                                 ELSE [candidate_slots EXCEPT ![pos] = proposed_slot]
           /\ current_slot' = proposed_slot
           /\ LoopHeader(1, history)
    /\ policy_calls' = Append(policy_calls, SchedulerCall([answer |-> d]))
    /\ UNCHANGED <<messages, other, calendar, unparseable, participants, max_rounds, meeting_request, given, all_alternatives>>

(* --------------------------- response rounds -------------------------- *)

respond_adopting(r) ==
    /\ pc = "collect"
    /\ idx <= Len(participants)
    /\ LET name == participants[idx]
       IN  /\ r \in respond_to_proposal(name, name \notin unparseable)
           /\ participant_responses' = SetKey(participant_responses, name, r)
           /\ negotiation_history' =
                  Append(negotiation_history, HistoryEntry(round_num, name, "respond", r))
           /\ all_accepted' = (all_accepted /\ Get(r, "decision", "") = "accept")
           /\ counter_proposals' =
                  IF /\ Get(r, "decision", "") # "accept"
                     /\ Get(r, "decision", "") = "counter_propose"
                     /\ Get(r, "alternative_slots", <<>>) # <<>>
                  THEN counter_proposals \o r.alternative_slots
                  ELSE counter_proposals
    /\ idx' = idx + 1
    /\ current_slot' = IF Get(r, "alternative_slots", <<>>) # <<>>
                       THEN r.alternative_slots[1]
                       ELSE current_slot
    /\ policy_calls' = Append(policy_calls, RespondCall(participants[idx], r))
    /\ returned' = Aliased(returned, negotiation_history')
    /\ UNCHANGED <<messages, other, calendar, unparseable, participants, max_rounds, pc, meeting_request, given,
                   candidate_slots, initial_decision, round_num,
                   all_alternatives>>

\* one iteration of "for name, agent in self.participants.items()": the
\* participant answers, the answer is recorded and tallied
respond(r) ==
    /\ pc = "collect"
    /\ idx <= Len(participants)
    /\ LET name == participants[idx]
       IN  /\ r \in respond_to_proposal(name, name \notin unparseable)
           /\ participant_responses' = SetKey(participant_responses, name, r)
           /\ negotiation_history' =
                  Append(negotiation_history, HistoryEntry(round_num, name, "respond", r))
           /\ all_accepted' = (all_accepted /\ Get(r, "decision", "") = "accept")
           /\ counter_proposals' =
                  IF /\ Get(r, "decision", "") # "accept"
                     /\ Get(r, "decision", "") = "counter_propose"
                     /\ Get(r, "alternative_slots", <<>>) # <<>>
                  THEN counter_proposals \o r.alternative_slots
                  ELSE counter_proposals
    /\ idx' = idx + 1
    /\ policy_calls' = Append(policy_calls, RespondCall(participants[idx], r))
    /\ returned' = Aliased(returned, negotiation_history')
    /\ UNCHANGED <<messages, other, calendar, unparseable, participants, max_rounds, pc, meeting_request, given,
                   candidate_slots, initial_decision, current_slot, round_num,
                   all_alternatives>>

\* sum(1 for r in participant_responses.values() if r.get("decision") == d)
CountDecisions(responses, d) ==
    Cardinality({n \in DOMAIN responses : Get(responses[n], "decision", "") = d})

_scheduler_adaptation_last(slot, responses, proposals) ==
    IF CountDecisions(responses, "decline") > Cardinality(DOMAIN responses) \div 2
    THEN [decision |-> "abort", reasoning |-> "Too many participants declined"]
    ELSE IF proposals # <<>>
         THEN [decision |-> "adapt",
               new_slot |-> [start_utc |-> proposals[Len(proposals)].start,
                             end_utc |-> proposals[Len(proposals)].end],
               reasoning |-> Get(proposals[1], "reason", "participant suggestion")]
         ELSE [decision |-> "continue", reasoning |-> "Continuing with current slot"]

\* _scheduler_adaptation(meeting_request, current_slot, participant_responses,
\* counter_proposals)
_scheduler_adaptation(slot, responses, proposals) ==
    IF CountDecisions(responses, "decline") > Cardinality(DOMAIN responses) \div 2
    THEN [decision |-> "abort", reasoning |-> "Too many participants declined"]
    ELSE IF proposals # <<>>
         THEN [decision |-> "adapt",
               new_slot |-> [start_utc |-> proposals[1].start,
                             end_utc |-> proposals[1].end],
               reasoning |-> Get(proposals[1], "reason", "participant suggestion")]
         ELSE [decision |-> "continue", reasoning |-> "Continuing with current slot"]

SuccessOutcome_recent ==
    [success |-> TRUE, status |-> "success", final_slot |-> current_slot,
     rounds_completed |-> round_num,
     confidence_score |-> Get(current_slot, "confidence_score", SuccessConfidence),
     consensus_reached |-> TRUE, participant_responses |-> participant_responses,
     negotiation_history |-> LastThree(negotiation_history),
     history |-> LastThree(negotiation_history)]

\* the three returns inside the round loop
SuccessOutcome ==
    [success |-> TRUE, status |-> "success", final_slot |-> current_slot,
     rounds_completed |-> round_num,
     confidence_score |-> Get(current_slot, "confidence_score", SuccessConfidence),
     consensus_reached |-> TRUE, participant_responses |-> participant_responses,
     negotiation_history |-> negotiation_history, history |-> negotiation_history]

ExhaustedOutcome ==
    [success |-> FALSE, status |-> "failed", reason |-> "max_rounds_exceeded",
     rounds_completed |-> round_num, confidence_score |-> ZeroConfidence,
     consensus_reached |-> FALSE, participant_responses |-> participant_responses,
     negotiation_history |-> negotiation_history, history |-> negotiation_history]

AbortedOutcome(adaptation_result) ==
    [success |-> FALSE, status |-> "aborted",
     reason |-> Get(adaptation_result, "reasoning", Null),
     rounds_completed |-> round_num, confidence_score |-> ZeroConfidence,
     consensus_reached |-> FALSE,
     negotiation_history |-> negotiation_history, history |-> negotiation_history]

RoundCollected_early == pc = "collect" /\ idx >= Len(participants)

RoundCollected == pc = "collect" /\ idx > Len(participants)

LastRound_strict == round_num > max_rounds

\* "round_num >= self.max_rounds"
LastRound == round_num >= max_rounds

\* "if all_accepted: return {...}"
consensus ==
    /\ RoundCollected
    /\ all_accepted
    /\ returned' = Append(returned, SuccessOutcome)
    /\ pc' = "done"
    /\ UNCHANGED <<messages, other, calendar, policy_calls, participants, max_rounds, negotiation_history, locals>>

exhausted_before_consensus ==
    /\ RoundCollected
    /\ LastRound
    /\ returned' = Append(returned, ExhaustedOutcome)
    /\ pc' = "done"
    /\ UNCHANGED <<messages, other, calendar, policy_calls, participants, max_rounds, negotiation_history, locals>>

\* "if round_num >= self.max_rounds: return {...}", reached when the
\* consensus return was not taken
exhausted ==
    /\ RoundCollected
    /\ ~all_accepted
    /\ LastRound
    /\ returned' = Append(returned, ExhaustedOutcome)
    /\ pc' = "done"
    /\ UNCHANGED <<messages, other, calendar, policy_calls, participants, max_rounds, negotiation_history, locals>>

\* "if adaptation_result.get("decision") == "abort": return {...}"
abort ==
    /\ RoundCollected
    /\ ~all_accepted
    /\ ~LastRound
    /\ LET adaptation_result ==
               _scheduler_adaptation(current_slot, participant_responses, counter_proposals)
       IN  /\ Get(adaptation_result, "decision", "") = "abort"
           /\ returned' = Append(returned, AbortedOutcome(adaptation_result))
    /\ pc' = "done"
    /\ UNCHANGED <<messages, other, calendar, policy_calls, participants, max_rounds, negotiation_history, locals>>

\* the scheduler adapts or continues, and the loop goes to the next round
adapt ==
    /\ RoundCollected
    /\ ~all_accepted
    /\ ~LastRound
    /\ LET adaptation_result ==
               _scheduler_adaptation(current_slot, participant_responses, counter_proposals)
       IN  /\ Get(adaptation_result, "decision", "") # "abort"
           /\ current_slot' = IF "new_slot" \in DOMAIN adaptation_result
                              THEN adaptation_result.new_slot
                              ELSE current_slot
    /\ LoopHeader(round_num + 1, negotiation_history)
    /\ UNCHANGED <<messages, other, calendar, unparseable, policy_calls, participants, max_rounds, negotiation_history, meeting_request, given,
                   candidate_slots, initial_decision, all_alternatives>>

(* ------------------------- alternatives branch ------------------------ *)

\* slot["proposed_by"] = name for every slot of a list
TagProposedBy(slots, name) ==
    [i \in DOMAIN slots |-> SetKey(slots[i], "proposed_by", name)]

\* one iteration of the loop of _handle_no_initial_slots
poll_alternatives(alternatives) ==
    /\ pc = "alternatives"
    /\ idx <= Len(participants)
    /\ LET name == participants[idx]
       IN  /\ alternatives \in propose_alternatives(name, name \notin unparseable)
           /\ all_alternatives' =
                  IF Get(alternatives, "alternative_slots", <<>>) # <<>>
                  THEN all_alternatives \o TagProposedBy(alternatives.alternative_slots, name)
                  ELSE all_alternatives
    /\ idx' = idx + 1
    /\ policy_calls' = Append(policy_calls, AlternativesCall(participants[idx], alternatives))
    /\ UNCHANGED <<messages, other, calendar, unparseable, participants, max_rounds, negotiation_history, pc, returned,
                   meeting_request, given, candidate_slots, initial_decision, current_slot,
                   round_num, participant_responses, all_accepted, counter_proposals>>

\* the return of _handle_no_initial_slots when nobody offered an alternative
NoAlternativesOutcome ==
    [success |-> FALSE, status |-> "failed", reason |-> "no_alternatives_suggested",
     rounds_completed |-> 0, confidence_score |-> ZeroConfidence,
     consensus_reached |-> FALSE,
     negotiation_history |-> negotiation_history, history |-> negotiation_history]

Reverse(seq) == [i \in DOMAIN seq |-> seq[Len(seq) + 1 - i]]

AlternativesOutcome_reranked ==
    [success |-> TRUE, status |-> "alternatives_suggested",
     selected_alternative |-> Reverse(all_alternatives)[1],
     all_alternatives |-> Reverse(all_alternatives), rounds_completed |-> 0,
     confidence_score |-> Get(all_alternatives[1], "confidence_score", DefaultSlotConfidence),
     consensus_reached |-> FALSE,
     negotiation_history |-> negotiation_history, history |-> negotiation_history]

AlternativesOutcome_default_confidence ==
    [success |-> TRUE, status |-> "alternatives_suggested",
     selected_alternative |-> all_alternatives[1],
     all_alternatives |-> all_alternatives, rounds_completed |-> 0,
     confidence_score |-> DefaultSlotConfidence,
     consensus_reached |-> FALSE,
     negotiation_history |-> negotiation_history, history |-> negotiation_history]

\* the return of _handle_no_initial_slots when some alternative was offered
AlternativesOutcome ==
    [success |-> TRUE, status |-> "alternatives_suggested",
     selected_alternative |-> all_alternatives[1],
     all_alternatives |-> all_alternatives, rounds_completed |-> 0,
     confidence_score |-> Get(all_alternatives[1], "confidence_score", DefaultSlotConfidence),
     consensus_reached |-> FALSE,
     negotiation_history |-> negotiation_history, history |-> negotiation_history]

\* "if not all_alternatives: return {...}"
no_alternatives ==
    /\ pc = "alternatives"
    /\ idx > Len(participants)
    /\ all_alternatives = <<>>
    /\ returned' = Append(returned, NoAlternativesOutcome)
    /\ pc' = "done"
    /\ UNCHANGED <<messages, other, calendar, policy_calls, participants, max_rounds, negotiation_history, locals>>

\* the first alternative is selected and all are returned
alternatives_suggested ==
    /\ pc = "alternatives"
    /\ idx > Len(participants)
    /\ all_alternatives # <<>>
    /\ returned' = Append(returned, AlternativesOutcome)
    /\ pc' = "done"
    /\ UNCHANGED <<messages, other, calendar, policy_calls, participants, max_rounds, negotiation_history, locals>>

(* ------------------------ communication bridge ------------------------ *)

\* what EmailGenerator.generate_message / generate_negotiation_summary return
\* after _parse_message_response
Message(message_type) ==
    [type |-> message_type, subject |-> "Meeting Update", body |-> "text"]

\* the messages dict _generate_outcome_messages builds for an outcome: one
\* message per participant for the three statuses it knows, and the summary
\* when the outcome carries a history
OutcomeMessages(negotiation_result) ==
    LET status == Get(negotiation_result, "status", "")
        message_type == CASE status = "success" -> "confirmation"
                          [] status = "failed" -> "apology"
                          [] status = "alternatives_suggested" -> "counter_proposal"
                          [] OTHER -> ""
        per_participant ==
            IF message_type = "" THEN NoResponses
            ELSE [n \in Range(participants) |-> Message(message_type)]
        summary ==
            IF Get(negotiation_result, "negotiation_history", <<>>) # <<>>
            THEN [n \in {"_summary"} |-> Message("summary")]
            ELSE NoResponses
    IN  summary @@ per_participant

\* negotiation_result["final_slot"]["start_utc"], read once per participant
\* in the success branch, raises KeyError when the key is missing
FinalTimeMissing(negotiation_result) ==
    /\ Get(negotiation_result, "status", "") = "success"
    /\ participants # <<>>
    /\ \/ "final_slot" \notin DOMAIN negotiation_result
       \/ "start_utc" \notin DOMAIN negotiation_result.final_slot

\* run_full_scheduling_process, step 3: _generate_outcome_messages is called
\* with the outcome run_negotiation returned
_generate_outcome_messages ==
    /\ pc = "done"
    /\ messages = NoValue
    /\ messages' = IF FinalTimeMissing(returned[Len(returned)])
                   THEN [raised |-> "KeyError"]
                   ELSE [returned |-> OutcomeMessages(returned[Len(returned)])]
    /\ UNCHANGED <<other, calendar, policy_calls, participants, max_rounds, negotiation_history,
                   pc, returned, locals>>

Next ==
    \/ \E n \in Names : add_participant(n)
    \/ \E m \in RoundLimits : set_max_rounds(m)
    \/ \E c \in CandidateLists : \E g \in SUBSET Range(participants) : run_negotiation(c, g)
    \/ scheduler_raises
    \/ \E d \in SchedulerAnswers : scheduler_no_viable_slot(d)
    \/ \E d \in SchedulerAnswers : scheduler_proposes(d)
    \/ \E n \in Names : \E b \in BOOLEAN : \E r \in respond_to_proposal(n, b) : respond(r)
    \/ consensus
    \/ exhausted
    \/ abort
    \/ adapt
    \/ \E n \in Names : \E b \in BOOLEAN : \E a \in propose_alternatives(n, b) : poll_alternatives(a)
    \/ no_alternatives
    \/ alternatives_suggested
    \/ _generate_outcome_messages

Spec == Init /\ [][Next]_vars

(* ========================= calendar functions ========================= *)

\* instants are integers 0 .. MaxTime
MaxTime == 4

\* {"start_utc": a, "end_utc": b}
Interval(a, b) == [start_utc |-> a, end_utc |-> b]

Max(a, b) == IF a >= b THEN a ELSE b

Min(a, b) == IF a <= b THEN a ELSE b

\* the lists of positive-length intervals within t .. MaxTime that are sorted
\* and pairwise non-overlapping (an interval may start where the previous ends)
RECURSIVE SortedListsFrom(_)
SortedListsFrom(t) ==
    {<<>>} \cup
    UNION {{<<Interval(p[1], p[2])>> \o rest : rest \in SortedListsFrom(p[2])} :
              p \in {q \in (t..MaxTime) \X (t..MaxTime) : q[1] < q[2]}}

SlotLists == SortedListsFrom(0)

\* compute_free_slots, the for loop: current_time and free_slots after it
RECURSIVE FreeLoop(_, _, _)
FreeLoop(evs, current_time, free) ==
    IF evs = <<>>
    THEN [current_time |-> current_time, free_slots |-> free]
    ELSE LET event == Head(evs)
         IN  FreeLoop(Tail(evs), Max(current_time, event.end_utc),
                      IF current_time < event.start_utc
                      THEN Append(free, Interval(current_time, event.start_utc))
                      ELSE free)

compute_free_slots_no_tail(evs, ws, we) == FreeLoop(evs, ws, <<>>).free_slots

\* compute_free_slots(events, work_start_utc, work_end_utc)
compute_free_slots(evs, ws, we) ==
    LET after == FreeLoop(evs, ws, <<>>)
    IN  IF after.current_time < we
        THEN Append(after.free_slots, Interval(after.current_time, we))
        ELSE after.free_slots

RECURSIVE IntersectLoop_from_a(_, _, _, _, _)
IntersectLoop_from_a(a, b, i, j, acc) ==
    IF i <= Len(a) /\ j <= Len(b)
    THEN LET start == Max(a[i].start_utc, b[j].start_utc)
             end == Min(a[i].end_utc, b[j].end_utc)
             acc1 == IF start < end THEN Append(acc, Interval(a[i].start_utc, end)) ELSE acc
         IN  IF a[i].end_utc < b[j].end_utc
             THEN IntersectLoop_from_a(a, b, i + 1, j, acc1)
             ELSE IntersectLoop_from_a(a, b, i, j + 1, acc1)
    ELSE acc

\* intersect_two_users, the while loop; i and j are 1-based here
RECURSIVE IntersectLoop(_, _, _, _, _)
IntersectLoop(a, b, i, j, acc) ==
    IF i <= Len(a) /\ j <= Len(b)
    THEN LET start == Max(a[i].start_utc, b[j].start_utc)
             end == Min(a[i].end_utc, b[j].end_utc)
             acc1 == IF start < end THEN Append(acc, Interval(start, end)) ELSE acc
         IN  IF a[i].end_utc < b[j].end_utc
             THEN IntersectLoop(a, b, i + 1, j, acc1)
             ELSE IntersectLoop(a, b, i, j + 1, acc1)
    ELSE acc

RECURSIVE IntersectLoop_touching(_, _, _, _, _)
IntersectLoop_touching(a, b, i, j, acc) ==
    IF i <= Len(a) /\ j <= Len(b)
    THEN LET start == Max(a[i].start_utc, b[j].start_utc)
             end == Min(a[i].end_utc, b[j].end_utc)
             acc1 == IF start <= end THEN Append(acc, Interval(start, end)) ELSE acc
         IN  IF a[i].end_utc < b[j].end_utc
             THEN IntersectLoop_touching(a, b, i + 1, j, acc1)
             ELSE IntersectLoop_touching(a, b, i, j + 1, acc1)
    ELSE acc

intersect_two_users_touching(a, b) == IntersectLoop_touching(a, b, 1, 1, <<>>)

intersect_two_users_from_a(a, b) == IntersectLoop_from_a(a, b, 1, 1, <<>>)

intersect_two_users_first(a, b) == a

\* intersect_two_users(slots_a, slots_b)
intersect_two_users(a, b) == IntersectLoop(a, b, 1, 1, <<>>)

\* flexibilities (0 to 1) and UTC offsets (whole hours) of the users; the
\* flexibilities and the scores are hundredths (25 = 0.25)
FlexValues == {0, 25, 40, 80, 100}

OffsetValues == {-7, 0, 1, 5}

\* dicts with the given values for at least one of the users
Mappings(values) == UNION {[S -> values] : S \in SUBSET Names \ {{}}}

\* sum(d.values())
RECURSIVE Sum(_)
Sum(d) ==
    IF DOMAIN d = {} THEN 0
    ELSE LET k == CHOOSE x \in DOMAIN d : TRUE
         IN  d[k] + Sum([x \in DOMAIN d \ {k} |-> d[x]])

\* round(num / den, 2) for den > 0, in hundredths: the nearest hundredth;
\* when num / den lies halfway between two hundredths the binary value of the
\* float decides which of the two is returned
Round2(num, den) ==
    LET q == (100 * num) \div den
        r == (100 * num) % den
    IN  IF 2 * r < den THEN {q}
        ELSE IF 2 * r > den THEN {q + 1}
        ELSE {q, q + 1}

\* disruption_score(slot, users): round(1 - sum(users.values()) / len(users), 2)
disruption_score(slot, us) ==
    LET len == Cardinality(DOMAIN us)
    IN  Round2(100 * len - Sum(us), 100 * len)

timezone_fairness_score_halved(slot, tz) ==
    LET offsets == {tz[u] : u \in DOMAIN tz}
        spread == (CHOOSE m \in offsets : \A o \in offsets : m >= o)
                  - (CHOOSE m \in offsets : \A o \in offsets : m <= o)
    IN  Round2(1, 2 + spread)

\* timezone_fairness_score(slot, users_timezones): round(1 / (1 + spread), 2)
timezone_fairness_score(slot, tz) ==
    LET offsets == {tz[u] : u \in DOMAIN tz}
        spread == (CHOOSE m \in offsets : \A o \in offsets : m >= o)
                  - (CHOOSE m \in offsets : \A o \in offsets : m <= o)
    IN  Round2(1, 1 + spread)

(* ------------------- compute_free_slots on its inputs ------------------ *)

\* the orchestrator and the bridge are not in use
NoNegotiation == Constructed /\ other = Fresh /\ messages = NoValue

\* a work window and a sorted list of busy intervals
FreeSlotsInit ==
    /\ NoNegotiation
    /\ events \in SlotLists
    /\ work_start_utc \in 0..MaxTime
    /\ work_end_utc \in 0..MaxTime
    /\ work_start_utc < work_end_utc
    /\ free_slots = <<>>
    /\ NoIntersections
    /\ NoScores
    /\ called = <<>>

\* free_slots = compute_free_slots(events, work_start_utc, work_end_utc)
call_compute_free_slots ==
    /\ called = <<>>
    /\ free_slots' = compute_free_slots(events, work_start_utc, work_end_utc)
    /\ called' = <<"compute_free_slots">>
    /\ UNCHANGED <<events, work_start_utc, work_end_utc, slots_a, slots_b, intersections,
                   all_free, users, users_timezones, scores, messages, other, policy_calls,
                   participants, max_rounds, negotiation_history, pc, returned, locals>>

FreeSlotsNext == call_compute_free_slots

FreeSlotsSpec == FreeSlotsInit /\ [][FreeSlotsNext]_vars

(* ------------------- intersect_two_users on its inputs ----------------- *)

\* the free-slot lists of the first two participants
IntersectInit ==
    /\ NoNegotiation
    /\ NoFreeSlots
    /\ slots_a \in SlotLists
    /\ slots_b \in SlotLists
    /\ intersections = <<>>
    /\ all_free = <<slots_a, slots_b>>
    /\ NoScores
    /\ called = <<>>

\* the lists in all_free have all been intersected
Intersected == Len(called) = Len(all_free) - 1

\* intersections = intersect_two_users(slots_a, slots_b)
call_intersect_two_users ==
    /\ ~Intersected
    /\ intersections' = intersect_two_users(slots_a, slots_b)
    /\ called' = Append(called, "intersect_two_users")
    /\ UNCHANGED <<events, work_start_utc, work_end_utc, free_slots, slots_a, slots_b,
                   all_free, users, users_timezones, scores, messages, other, policy_calls,
                   participants, max_rounds, negotiation_history, pc, returned, locals>>

\* the fold goes on: the result so far is intersected with the free-slot
\* list of the next participant
fold_next(next_free) ==
    /\ Intersected
    /\ Len(all_free) < Len(AllNames)
    /\ slots_a' = intersections
    /\ slots_b' = next_free
    /\ all_free' = Append(all_free, next_free)
    /\ UNCHANGED <<events, work_start_utc, work_end_utc, free_slots, intersections,
                   called, users, users_timezones, scores, messages, other, policy_calls,
                   participants, max_rounds, negotiation_history, pc, returned, locals>>

IntersectNext ==
    \/ call_intersect_two_users
    \/ \E next_free \in SlotLists : fold_next(next_free)

IntersectSpec == IntersectInit /\ [][IntersectNext]_vars

(* ------------------------ scores on their inputs ----------------------- *)

\* the slot the scores are computed for
ScoredSlot == Interval(0, 1)

ScoresInit ==
    /\ NoNegotiation
    /\ NoFreeSlots
    /\ NoIntersections
    /\ users \in Mappings(FlexValues)
    /\ users_timezones \in Mappings(OffsetValues)
    /\ scores = NoResponses
    /\ called = <<>>

\* scores["disruption"] = disruption_score(slot, users)
call_disruption_score(score) ==
    /\ "disruption" \notin DOMAIN scores
    /\ score \in disruption_score(ScoredSlot, users)
    /\ scores' = SetKey(scores, "disruption", score)
    /\ called' = Append(called, "disruption_score")
    /\ UNCHANGED <<events, work_start_utc, work_end_utc, free_slots, slots_a, slots_b,
                   intersections, all_free, users, users_timezones, messages, other, policy_calls,
                   participants, max_rounds, negotiation_history, pc, returned, locals>>

\* scores["timezone_fairness"] = timezone_fairness_score(slot, users_timezones)
call_timezone_fairness_score(score) ==
    /\ "timezone_fairness" \notin DOMAIN scores
    /\ score \in timezone_fairness_score(ScoredSlot, users_timezones)
    /\ scores' = SetKey(scores, "timezone_fairness", score)
    /\ called' = Append(called, "timezone_fairness_score")
    /\ UNCHANGED <<events, work_start_utc, work_end_utc, free_slots, slots_a, slots_b,
                   intersections, all_free, users, users_timezones, messages, other, policy_calls,
                   participants, max_rounds, negotiation_history, pc, returned, locals>>

ScoresNext ==
    \/ \E score \in disruption_score(ScoredSlot, users) : call_disruption_score(score)
    \/ \E score \in timezone_fairness_score(ScoredSlot, users_timezones) :
          call_timezone_fairness_score(score)

ScoresSpec == ScoresInit /\ [][ScoresNext]_vars

(* ------------------- a second call on one orchestrator ----------------- *)

MaxRuns == 2

\* the participants and answers of the repeated negotiations
RerunNames == {"Alice"}

RerunAnswers ==
    {d \in SchedulerAnswers : Get(d, "selected_slot_id", Null) = Null}

run_negotiation_fresh_history(cands, garbled) ==
    /\ pc \in {"done", "raised"}
    /\ Len(SelectSeq(policy_calls, LAMBDA c : c.method = "run_scheduler_agent")) < MaxRuns
    /\ negotiation_history' = <<>>
    /\ unparseable' = garbled
    /\ meeting_request' = [title |-> "Product Strategy Review",
                           participants |-> InProfileOrder(Range(participants))]
    /\ candidate_slots' = cands
    /\ given' = cands
    /\ initial_decision' = NoValue
    /\ current_slot' = NoValue
    /\ round_num' = 0
    /\ idx' = 0
    /\ participant_responses' = NoResponses
    /\ all_accepted' = TRUE
    /\ counter_proposals' = <<>>
    /\ all_alternatives' = <<>>
    /\ pc' = "scheduler"
    /\ UNCHANGED <<messages, other, calendar, policy_calls, participants, max_rounds, returned>>

\* run_negotiation called again on the orchestrator after an earlier call
\* has returned or raised: the locals are new, the attributes of the
\* orchestrator are what the earlier call left
run_negotiation_again(cands, garbled) ==
    /\ pc \in {"done", "raised"}
    /\ Len(SelectSeq(policy_calls, LAMBDA c : c.method = "run_scheduler_agent")) < MaxRuns
    /\ unparseable' = garbled
    /\ meeting_request' = [title |-> "Product Strategy Review",
                           participants |-> InProfileOrder(Range(participants))]
    /\ candidate_slots' = cands
    /\ given' = cands
    /\ initial_decision' = NoValue
    /\ current_slot' = NoValue
    /\ round_num' = 0
    /\ idx' = 0
    /\ participant_responses' = NoResponses
    /\ all_accepted' = TRUE
    /\ counter_proposals' = <<>>
    /\ all_alternatives' = <<>>
    /\ pc' = "scheduler"
    /\ UNCHANGED <<messages, other, calendar, policy_calls, participants, max_rounds,
                   negotiation_history, returned>>

RerunNext ==
    \/ \E n \in RerunNames : add_participant(n)
    \/ run_negotiation(<<>>, {})
    \/ run_negotiation_again(<<>>, {})
    \/ scheduler_raises
    \/ \E d \in RerunAnswers : scheduler_no_viable_slot(d)
    \/ \E d \in RerunAnswers : scheduler_proposes(d)
    \/ \E n \in RerunNames : \E r \in respond_to_proposal(n, TRUE) : respond(r)
    \/ consensus
    \/ exhausted
    \/ abort
    \/ adapt
    \/ \E n \in RerunNames : \E a \in propose_alternatives(n, TRUE) : poll_alternatives(a)
    \/ no_alternatives
    \/ alternatives_suggested

RerunSpec == Init /\ [][RerunNext]_vars

(* ---------------- two orchestrators, steps interleaved ----------------- *)

\* the participants of the two negotiations
TwoNames == {"Alice", "Bob"}

\* the scheduler's answers in the two negotiations: a confirmation that
\* names no slot, and text that is no JSON
TwoAnswers ==
    {d \in SchedulerAnswers :
        /\ Get(d, "decision", "") # "negotiate_or_reschedule"
        /\ Get(d, "selected_slot_id", Null) = Null}

\* the attributes of the orchestrator that is being stepped, and the locals
\* of its run_negotiation call; the list its candidate_slots refers to is
\* the caller's and is not part of it
Active ==
    [participants |-> participants, max_rounds |-> max_rounds,
     negotiation_history |-> negotiation_history, pc |-> pc,
     meeting_request |-> meeting_request, initial_decision |-> initial_decision,
     current_slot |-> current_slot, round_num |-> round_num, idx |-> idx,
     participant_responses |-> participant_responses, all_accepted |-> all_accepted,
     counter_proposals |-> counter_proposals, all_alternatives |-> all_alternatives,
     returned |-> returned, policy_calls |-> policy_calls, unparseable |-> unparseable,
     given |-> given]

\* the caller (or the thread scheduler) turns to the other orchestrator: each
\* orchestrator keeps its own attributes and locals (self.x = ... in
\* __init__); both run_negotiation calls were passed the same list, which
\* stays where it is
switch ==
    /\ other' = Active
    /\ participants' = other.participants
    /\ max_rounds' = other.max_rounds
    /\ negotiation_history' = other.negotiation_history
    /\ pc' = other.pc
    /\ meeting_request' = other.meeting_request
    /\ initial_decision' = other.initial_decision
    /\ current_slot' = other.current_slot
    /\ round_num' = other.round_num
    /\ idx' = other.idx
    /\ participant_responses' = other.participant_responses
    /\ all_accepted' = other.all_accepted
    /\ counter_proposals' = other.counter_proposals
    /\ all_alternatives' = other.all_alternatives
    /\ returned' = other.returned
    /\ policy_calls' = other.policy_calls
    /\ unparseable' = other.unparseable
    /\ given' = other.given
    /\ UNCHANGED <<candidate_slots, messages, calendar>>

\* each negotiation has one participant; the first run_negotiation call is
\* passed a list of the caller, the second one is passed the same list
TwoNext ==
    \/ \E n \in TwoNames : participants = <<>> /\ add_participant(n)
    \/ \E c \in CandidateLists : other.pc = "idle" /\ run_negotiation(c, {})
    \/ other.pc # "idle" /\ run_negotiation(candidate_slots, {})
    \/ scheduler_raises
    \/ \E d \in TwoAnswers : scheduler_proposes(d)
    \/ \E n \in TwoNames : \E r \in respond_to_proposal(n, TRUE) : respond(r)
    \/ consensus
    \/ exhausted
    \/ abort
    \/ adapt
    \/ switch

TwoSpec == Init /\ [][TwoNext]_vars

(* ======================= properties of the model ====================== *)

\* the outcome record of the call that has returned
Outcome == returned[Len(returned)]

\* the history entries the participants' answers of round r left
ResponsesIn(r) ==
    SelectSeq(negotiation_history, LAMBDA e : e.round = r /\ e.action = "respond")

\* the calls of respond_to_proposal made in round r
RespondCalls(r) ==
    SelectSeq(policy_calls,
              LAMBDA c : c.method = "respond_to_proposal" /\ c.context.round = r)

\* round r was entered and every registered participant has answered in it
RoundAnswered(r) ==
    r >= 1 /\ round_num >= r /\ Len(ResponsesIn(r)) = Len(participants)

AllAcceptIn(r) ==
    LET given_in_r == ResponsesIn(r)
    IN  \A i \in DOMAIN given_in_r : given_in_r[i].content.decision = "accept"

DeclinesIn(r) ==
    LET given_in_r == ResponsesIn(r)
    IN  Cardinality({i \in DOMAIN given_in_r : given_in_r[i].content.decision = "decline"})

RECURSIVE Concat(_)
Concat(seqs) == IF seqs = <<>> THEN <<>> ELSE Head(seqs) \o Concat(Tail(seqs))

\* the alternative slots offered with the counter_propose decisions of round
\* r, in the order the decisions were recorded
OfferedIn(r) ==
    LET given_in_r == ResponsesIn(r)
    IN  Concat([i \in DOMAIN given_in_r |->
                  IF given_in_r[i].content.decision = "counter_propose"
                  THEN Get(given_in_r[i].content, "alternative_slots", <<>>)
                  ELSE <<>>])

\* the time interval of a slot, whichever pair of keys carries it
SlotInterval(slot) ==
    IF "start_utc" \in DOMAIN slot THEN <<slot.start_utc, slot.end_utc>>
    ELSE <<slot.start, slot.end>>

IsPrefix(s, t) == Len(s) <= Len(t) /\ SubSeq(t, 1, Len(s)) = s

\* C1: consensus rule. Whenever every participant's recorded decision of a
\* round r (1 <= r <= max_rounds, the last round included) is accept, no
\* further round is entered and the call returns status success,
\* consensus_reached true, rounds_completed r and as final_slot the slot that
\* was proposed to the participants in round r.
C1_Consensus ==
    \A r \in 1..max_rounds :
        (RoundAnswered(r) /\ AllAcceptIn(r)) =>
            /\ round_num = r
            /\ pc \in {"collect", "done"}
            /\ pc = "done" =>
                  /\ Len(returned) = 1
                  /\ Outcome.status = "success"
                  /\ Outcome.consensus_reached = TRUE
                  /\ Outcome.rounds_completed = r
                  /\ "final_slot" \in DOMAIN Outcome
                  /\ LET asked == RespondCalls(r)
                     IN  \A i \in DOMAIN asked :
                             Outcome.final_slot = asked[i].proposed_slot

\* consensus in the last of three rounds, two participants
C1_Witness ==
    /\ pc = "done"
    /\ max_rounds = 3
    /\ Len(participants) = 2
    /\ Outcome.status = "success"
    /\ Outcome.rounds_completed = 3
    /\ Len(RespondCalls(3)) = 2
    /\ AllAcceptIn(3)

\* C2 (as claimed): abort rule. If the decline decisions of round 1 exceed
\* floor(participant_count / 2), then for every max_rounds >= 1 no second
\* round is run and the call returns status aborted with rounds_completed 1.
C2_AbortInRoundOne ==
    (max_rounds >= 1 /\ RoundAnswered(1) /\ DeclinesIn(1) > Len(participants) \div 2) =>
        /\ round_num = 1
        /\ pc = "done" => (Outcome.status = "aborted" /\ Outcome.rounds_completed = 1)

\* C3: exhaustion rule. When round max_rounds has been answered without
\* consensus, the call returns status failed, reason max_rounds_exceeded,
\* rounds_completed max_rounds and consensus_reached false (no abort is
\* decided in the last round).
C3_Exhaustion ==
    (pc = "done" /\ max_rounds >= 1 /\ RoundAnswered(max_rounds)
        /\ ~AllAcceptIn(max_rounds)) =>
        /\ Outcome.status = "failed"
        /\ Get(Outcome, "reason", "") = "max_rounds_exceeded"
        /\ Outcome.rounds_completed = max_rounds
        /\ Outcome.consensus_reached = FALSE

\* three rounds without consensus, the last one with a majority of declines
C3_Witness ==
    /\ pc = "done"
    /\ max_rounds = 3
    /\ Len(participants) = 2
    /\ RoundAnswered(3)
    /\ DeclinesIn(3) = 2
    /\ Outcome.status = "failed"

\* C4 (as claimed): termination. For max_rounds >= 1 a call of
\* run_negotiation that has ended ran at most max_rounds rounds and has
\* returned exactly one outcome record, with a status among success, failed,
\* aborted, incomplete, alternatives_suggested and with
\* 0 <= rounds_completed <= max_rounds.
C4_ReturnsOneOutcome ==
    (max_rounds >= 1 /\ pc \in {"done", "raised"}) =>
        /\ round_num <= max_rounds
        /\ Len(returned) = 1
        /\ Outcome.status \in {"success", "failed", "aborted", "incomplete",
                               "alternatives_suggested"}
        /\ 0 <= Outcome.rounds_completed
        /\ Outcome.rounds_completed <= max_rounds

\* C5: adaptation rule. When round r ended without consensus and without
\* abort and round r+1 was entered, the slot proposed in round r+1 has the
\* interval of the first alternative slot offered with a counter_propose
\* decision of round r (in the order the decisions were recorded) if any was
\* offered, and is otherwise exactly the slot proposed in round r.
C5_Adaptation ==
    \A r \in 1..(round_num - 1) :
        LET offered == OfferedIn(r)
            before == RespondCalls(r)
            after == RespondCalls(r + 1)
            Adapted(slot) ==
                IF offered # <<>>
                THEN SlotInterval(slot) = <<offered[1].start, offered[1].end>>
                ELSE \A i \in DOMAIN before : slot = before[i].proposed_slot
        IN  /\ \A j \in DOMAIN after : Adapted(after[j].proposed_slot)
            /\ (round_num = r + 1) => Adapted(current_slot)

\* round 1 adopts an offered slot, round 2 has a counter_propose decision that
\* offers nothing and keeps the slot, and round 3 proposes it again
C5_Witness ==
    /\ round_num = 3
    /\ Len(participants) = 2
    /\ Len(OfferedIn(1)) >= 2
    /\ OfferedIn(2) = <<>>
    /\ \E i \in DOMAIN ResponsesIn(2) : ResponsesIn(2)[i].content.decision = "counter_propose"
    /\ Len(RespondCalls(3)) >= 1
    /\ RespondCalls(3)[1].proposed_slot = RespondCalls(2)[1].proposed_slot
    /\ RespondCalls(2)[1].proposed_slot # RespondCalls(1)[1].proposed_slot

\* the slot as offered, without the proposed_by tag
Untagged(slot) == [k \in DOMAIN slot \ {"proposed_by"} |-> slot[k]]

\* the calls of propose_alternatives
AlternativesCalls ==
    SelectSeq(policy_calls, LAMBDA c : c.method = "propose_alternatives")

C7_InitialSlot ==
    (pc = "collect" /\ round_num = 1 /\ candidate_slots # <<>>) =>
        LET id == Get(initial_decision, "selected_slot_id", Null)
            named == {k \in DOMAIN candidate_slots :
                         id.kind = "int" /\ candidate_slots[k].slot_id = id.index}
        IN  IF named # {}
            THEN \A k \in named : current_slot = candidate_slots[k]
            ELSE current_slot = candidate_slots[1]

\* C8 (as claimed): within every round the decisions are recorded in the
\* order of the meeting request's participant list.
C8_RequestOrder ==
    \A r \in 1..round_num :
        LET agents == [i \in DOMAIN ResponsesIn(r) |-> ResponsesIn(r)[i].agent]
        IN  IsPrefix(agents, meeting_request.participants)

\* C9: the negotiation history is append-only: every step leaves the
\* previous history as a prefix of the new one, and an outcome record, when
\* it is returned, carries the complete history accumulated so far.
C9_AppendOnly ==
    [][/\ IsPrefix(negotiation_history, negotiation_history')
       /\ Len(returned') > Len(returned) =>
             /\ returned'[Len(returned')].history = negotiation_history'
             /\ returned'[Len(returned')].negotiation_history = negotiation_history']_vars

\* a returned outcome whose history has the scheduler's entry and two rounds
\* of two answers
C9_Witness ==
    /\ pc = "done"
    /\ Len(negotiation_history) >= 5
    /\ Outcome.history = negotiation_history
    /\ Outcome.rounds_completed = 2

\* C10 (as claimed): in every outcome record final_slot is present iff the
\* status is success, and reason is present iff the status is not success
\* (stated here for the runs with max_rounds >= 1, where it already fails).
C10_FinalSlotAndReason ==
    max_rounds >= 1 =>
        \A i \in DOMAIN returned :
            /\ "final_slot" \in DOMAIN returned[i] <=> returned[i].status = "success"
            /\ "reason" \in DOMAIN returned[i] <=> returned[i].status # "success"

C12_PolicyFailureFallback ==
    /\ \A i \in DOMAIN negotiation_history :
          LET e == negotiation_history[i]
          IN  (e.action = "respond" /\ e.agent \in unparseable) =>
                  /\ e.content.decision =
                         IF flexibility_score(e.agent) > 7 THEN "accept"
                         ELSE "counter_propose"
                  /\ "response_content" \in DOMAIN e.content
    /\ (RoundCollected /\ unparseable # {}) =>
          Len(ResponsesIn(round_num)) = Len(participants)

\* C13 (as claimed): every participant decision recorded in the history, the
\* fallback decisions included, has alternative_slots present if and only if
\* its decision is counter_propose.
C13_AlternativesIffCounterPropose ==
    \A i \in DOMAIN negotiation_history :
        LET e == negotiation_history[i]
        IN  e.action = "respond" =>
                ("alternative_slots" \in DOMAIN e.content
                    <=> e.content.decision = "counter_propose")

\* C14 (as claimed): empty input fails fast. A call of run_negotiation with
\* no registered participant, or with no candidate slot when the scheduler
\* does not answer negotiate_or_reschedule, creates no history entry, runs no
\* round and returns no success outcome.
C14_EmptyInputFailsFast ==
    (/\ pc \notin {"idle", "scheduler"}
     /\ \/ participants = <<>>
        \/ /\ candidate_slots = <<>>
           /\ Get(initial_decision, "decision", "") # "negotiate_or_reschedule")
        => /\ negotiation_history = <<>>
           /\ round_num = 0
           /\ \A i \in DOMAIN returned : returned[i].status # "success"

\* C20 (as claimed): communication bridge mapping. For every outcome the
\* orchestrator returns, the bridge gives each participant a message of
\* intent confirmation when the status is success, apology when it is failed,
\* counter_proposal when it is alternatives_suggested, and no per-participant
\* message when it is aborted or incomplete; no other per-participant message
\* is produced.
C20_BridgeMapping ==
    messages # NoValue =>
        LET status == Outcome.status
            intent == CASE status = "success" -> "confirmation"
                        [] status = "failed" -> "apology"
                        [] status = "alternatives_suggested" -> "counter_proposal"
                        [] OTHER -> "none"
        IN  /\ "returned" \in DOMAIN messages
            /\ \A n \in Range(participants) :
                  IF intent = "none" THEN n \notin DOMAIN messages.returned
                  ELSE /\ n \in DOMAIN messages.returned
                       /\ messages.returned[n].type = intent
            /\ DOMAIN messages.returned \subseteq Range(participants) \cup {"_summary"}

\* the instants of the unit cells a list of intervals covers
Cells(slots) == UNION {slots[i].start_utc .. (slots[i].end_utc - 1) : i \in DOMAIN slots}

\* every busy interval lies within the work window
BusyWithinWindow ==
    \A k \in DOMAIN events :
        work_start_utc <= events[k].start_utc /\ events[k].end_utc <= work_end_utc

\* C15: for a sorted, pairwise non-overlapping busy list within
\* [work_start_utc, work_end_utc], the list compute_free_slots returns is
\* sorted, pairwise non-overlapping, of positive-length intervals, disjoint
\* from the busy intervals, and together with them covers exactly the window.
C15_FreeSlotsPartition ==
    (called = <<"compute_free_slots">> /\ BusyWithinWindow) =>
        /\ \A i, j \in DOMAIN free_slots :
              i < j => free_slots[i].end_utc <= free_slots[j].start_utc
        /\ \A i \in DOMAIN free_slots : free_slots[i].start_utc < free_slots[i].end_utc
        /\ Cells(free_slots) \cap Cells(events) = {}
        /\ Cells(free_slots) \cup Cells(events) = work_start_utc .. (work_end_utc - 1)

\* two busy intervals inside the window leave free time before and between
C15_Witness ==
    /\ called = <<"compute_free_slots">>
    /\ BusyWithinWindow
    /\ Len(events) = 2
    /\ Len(free_slots) = 2
    /\ events[2].end_utc = work_end_utc

\* a busy interval entirely before or entirely after the work window
Outside(event) ==
    event.end_utc <= work_start_utc \/ event.start_utc >= work_end_utc

\* the list without its k-th element
Remove(seq, k) == SubSeq(seq, 1, k - 1) \o SubSeq(seq, k + 1, Len(seq))

\* C16 (as claimed): a busy interval entirely outside the work window is
\* ignored by compute_free_slots: the result is the result for the list
\* without it, and every free slot returned lies within the window.
C16_OutsideIgnored ==
    called = <<"compute_free_slots">> =>
        \A k \in DOMAIN events :
            Outside(events[k]) =>
                /\ free_slots =
                      compute_free_slots(Remove(events, k), work_start_utc, work_end_utc)
                /\ \A i \in DOMAIN free_slots :
                      /\ work_start_utc <= free_slots[i].start_utc
                      /\ free_slots[i].end_utc <= work_end_utc

\* C17: intersect_two_users is commutative as a set: the intervals returned
\* for (slots_a, slots_b) are the intervals returned for (slots_b, slots_a),
\* for any two sorted, pairwise non-overlapping lists, also when intervals of
\* the two lists end at the same instant.
C17_IntersectCommutes ==
    (called # <<>> /\ Intersected) =>
        Range(intersections) = Range(intersect_two_users(slots_b, slots_a))

\* two different lists with intervals that end at the same instant and overlap
C17_Witness ==
    /\ called = <<"intersect_two_users">>
    /\ slots_a # slots_b
    /\ Len(slots_a) = 2
    /\ Len(intersections) = 2
    /\ \E i \in DOMAIN slots_a : \E j \in DOMAIN slots_b :
          /\ slots_a[i].end_utc = slots_b[j].end_utc
          /\ slots_a[i].start_utc < slots_b[j].start_utc

\* interval x lies within one interval of the list
ContainedIn(x, slots) ==
    \E k \in DOMAIN slots :
        slots[k].start_utc <= x.start_utc /\ x.end_utc <= slots[k].end_utc

\* C18: folding intersect_two_users left to right over the participants'
\* free-slot lists yields intervals each of which lies within some free slot
\* of every participant.
C18_FoldWithinEveryList ==
    (called # <<>> /\ Intersected) =>
        \A i \in DOMAIN intersections : \A n \in DOMAIN all_free :
            ContainedIn(intersections[i], all_free[n])

\* three lists folded, all different, with common free time left
C18_Witness ==
    /\ Len(all_free) = 3
    /\ Intersected
    /\ intersections # <<>>
    /\ all_free[1] # all_free[2]
    /\ all_free[2] # all_free[3]
    /\ all_free[1] # all_free[3]
    /\ intersections # all_free[3]

\* C19: for non-empty mappings with flexibilities in [0, 1] and whole-hour
\* offsets, disruption_score and timezone_fairness_score are both in [0, 1],
\* and the timezone fairness of a single participant is exactly 1.0.
C19_ScoresInUnitRange ==
    /\ "disruption" \in DOMAIN scores =>
          (0 <= scores.disruption /\ scores.disruption <= 100)
    /\ "timezone_fairness" \in DOMAIN scores =>
          /\ 0 <= scores.timezone_fairness
          /\ scores.timezone_fairness <= 100
          /\ Cardinality(DOMAIN users_timezones) = 1 => scores.timezone_fairness = 100

\* both scores computed, one participant's offset, flexibilities that differ
C19_Witness ==
    /\ Len(called) = 2
    /\ Cardinality(DOMAIN users_timezones) = 1
    /\ scores.timezone_fairness = 100
    /\ Cardinality(DOMAIN users) = 2
    /\ 0 < scores.disruption
    /\ scores.disruption < 100

\* C22 (as claimed): slot normalization. The slot proposed in round 1 carries
\* start and end, a confidence_score and a rank; every slot proposed to the
\* participants in any round, and every final_slot returned, carries start
\* and end as well.
C22_CanonicalSlot ==
    /\ \A i \in DOMAIN policy_calls :
          LET c == policy_calls[i]
          IN  c.method = "respond_to_proposal" =>
                  /\ {"start", "end"} \subseteq DOMAIN c.proposed_slot
                  /\ c.context.round = 1 =>
                        {"confidence_score", "rank"} \subseteq DOMAIN c.proposed_slot
    /\ \A i \in DOMAIN returned :
          "final_slot" \in DOMAIN returned[i] =>
              {"start", "end"} \subseteq DOMAIN returned[i].final_slot

\* the calls of run_scheduler_agent
SchedulerCalls ==
    SelectSeq(policy_calls, LAMBDA c : c.method = "run_scheduler_agent")

\* C23 (as claimed): slots are never mutated in place. While and after
\* run_negotiation runs, the caller's candidate_slots list holds the records
\* it held when the call was made, and the alternative slots collected are
\* the records the participants' policies returned, field for field.
C23_SlotsNotMutated ==
    /\ \A i \in DOMAIN SchedulerCalls :
          candidate_slots = SchedulerCalls[i].input_payload.candidate_slots
    /\ all_alternatives =
          Concat([i \in DOMAIN AlternativesCalls |->
                     Get(AlternativesCalls[i].answer, "alternative_slots", <<>>)])

\* C24 (as claimed): within a round the input of a participant's policy does
\* not depend on the decisions the other participants give in that round:
\* the history entries handed to respond_to_proposal hold no response of the
\* round that is being collected.
C24_InputIndependentOfRound ==
    \A i \in DOMAIN policy_calls :
        LET c == policy_calls[i]
        IN  c.method = "respond_to_proposal" =>
                \A k \in DOMAIN c.context.history :
                    ~(/\ c.context.history[k].action = "respond"
                      /\ c.context.history[k].round = c.context.round)

\* the positive-length overlaps of an interval of a with an interval of b
PairwiseOverlaps(a, b) ==
    {Interval(Max(a[i].start_utc, b[j].start_utc), Min(a[i].end_utc, b[j].end_utc)) :
        <<i, j>> \in {p \in (DOMAIN a) \X (DOMAIN b) :
                         Max(a[p[1]].start_utc, b[p[2]].start_utc)
                             < Min(a[p[1]].end_utc, b[p[2]].end_utc)}}

\* C25: for any two sorted, pairwise non-overlapping lists intersect_two_users
\* returns exactly the positive-length pairwise overlaps: every interval has
\* positive length, the list is sorted and pairwise non-overlapping (hence
\* without duplicates), and it covers exactly the time both lists cover.
C25_ExactOverlaps ==
    (called # <<>> /\ Intersected) =>
        /\ \A i \in DOMAIN intersections :
              intersections[i].start_utc < intersections[i].end_utc
        /\ \A i \in 1..(Len(intersections) - 1) :
              intersections[i].end_utc <= intersections[i + 1].start_utc
        /\ Range(intersections) = PairwiseOverlaps(slots_a, slots_b)
        /\ Len(intersections) = Cardinality(PairwiseOverlaps(slots_a, slots_b))
        /\ Cells(intersections) = Cells(slots_a) \cap Cells(slots_b)

\* two lists intersected where one pair of intervals only touches, one pair
\* ends at the same instant, and one interval of a overlaps two of b
C25_Witness ==
    /\ called = <<"intersect_two_users">>
    /\ intersections # <<>>
    /\ \E i \in DOMAIN slots_a : \E j \in DOMAIN slots_b :
          slots_a[i].end_utc = slots_b[j].start_utc
    /\ \E i \in DOMAIN slots_a : \E j \in DOMAIN slots_b :
          /\ slots_a[i].end_utc = slots_b[j].end_utc
          /\ slots_a[i].start_utc # slots_b[j].start_utc
    /\ \E i \in DOMAIN slots_a : \E j, k \in DOMAIN slots_b :
          /\ j # k
          /\ {Interval(Max(slots_a[i].start_utc, slots_b[j].start_utc), Min(slots_a[i].end_utc, slots_b[j].end_utc)),
              Interval(Max(slots_a[i].start_utc, slots_b[k].start_utc), Min(slots_a[i].end_utc, slots_b[k].end_utc))}
                \subseteq Range(intersections)

\* C26: history structure of a negotiation on a fresh orchestrator. The
\* scheduler policy is invoked once and its decision is the first entry, of
\* round 0; the entries after it are responses grouped by round, the k-th
\* of them given in round (k - 1) \div n + 1 by participant number
\* (k - 1) % n + 1 of the n registered ones, so rounds never decrease and
\* each executed round holds one response of each participant; a
\* negotiation that ended in round r has 1 + r * n entries.
C26_HistoryStructure ==
    LET n == Len(participants)
    IN  /\ Len(SchedulerCalls) = IF pc \in {"idle", "scheduler"} THEN 0 ELSE 1
        /\ pc \in {"idle", "scheduler", "raised"} => negotiation_history = <<>>
        /\ pc \in {"collect", "alternatives", "done"} =>
              /\ negotiation_history # <<>>
              /\ negotiation_history[1] =
                     HistoryEntry(0, "scheduler", "initial_proposal", SchedulerCalls[1].answer)
              /\ \A k \in 1..(Len(negotiation_history) - 1) :
                     LET e == negotiation_history[k + 1]
                     IN  /\ n > 0
                         /\ e.action = "respond"
                         /\ e.round = ((k - 1) \div n) + 1
                         /\ e.round <= round_num
                         /\ e.agent = participants[((k - 1) % n) + 1]
        /\ pc = "collect" =>
              Len(negotiation_history) = 1 + (round_num - 1) * n + (idx - 1)
        /\ pc = "done" =>
              Len(negotiation_history) = 1 + round_num * n

\* a negotiation of two participants that ended after three rounds
C26_Witness ==
    /\ pc = "done"
    /\ Len(participants) = 2
    /\ round_num = 3
    /\ Outcome.rounds_completed = 3
    /\ Len(negotiation_history) = 7

\* C27: within one round every participant is asked about the same slot,
\* the slot that is current while the round is collected: the current slot
\* does not change while responses are being collected.
C27_SameSlotWithinRound ==
    \A i \in DOMAIN policy_calls :
        LET c == policy_calls[i]
        IN  c.method = "respond_to_proposal" =>
                /\ (pc = "collect" /\ c.context.round = round_num) =>
                       c.proposed_slot = current_slot
                /\ (i > 1 /\ policy_calls[i - 1].method = "respond_to_proposal"
                          /\ policy_calls[i - 1].context.round = c.context.round) =>
                       c.proposed_slot = policy_calls[i - 1].proposed_slot

\* round 2 was collected from two participants, on a slot adopted from a
\* counter-proposal of round 1, and the first of them countered again
C27_Witness ==
    /\ pc = "collect"
    /\ round_num = 2
    /\ Len(RespondCalls(2)) = 2
    /\ RespondCalls(2)[1].proposed_slot # RespondCalls(1)[1].proposed_slot
    /\ RespondCalls(2)[1].answer.decision = "counter_propose"
    /\ counter_proposals # <<>>

\* the call got past the initial decision into the round loop
LoopReached == current_slot # NoValue

\* C28: a call that reaches the round loop returns status incomplete if and
\* only if max_rounds < 1; for max_rounds >= 1 it returns success, failed or
\* aborted from inside the loop.
C28_IncompleteIffNoRound ==
    (pc = "done" /\ LoopReached) =>
        /\ Outcome.status = "incomplete" <=> max_rounds < 1
        /\ max_rounds >= 1 => Outcome.status \in {"success", "failed", "aborted"}
        /\ Outcome.status = "incomplete" => round_num = 0

\* max_rounds = 0: the loop body never ran and incomplete was returned
C28_Witness ==
    /\ pc = "done"
    /\ LoopReached
    /\ max_rounds < 1
    /\ Outcome.status = "incomplete"
    /\ Len(negotiation_history) = 1
    /\ participants # <<>>

\* C30 (as claimed): every success outcome has a final_slot with the
\* start_utc field, and the bridge, once it ran on a success outcome, has
\* returned a confirmation for every participant.
C30_SuccessHasStartUtc ==
    (pc = "done" /\ Outcome.status = "success") =>
        /\ "start_utc" \in DOMAIN Outcome.final_slot
        /\ messages # NoValue =>
              /\ "returned" \in DOMAIN messages
              /\ \A n \in Range(participants) :
                    /\ n \in DOMAIN messages.returned
                    /\ messages.returned[n] = Message("confirmation")

\* the history entries a log of policy calls stands for: one per scheduler
\* call that returned, one per respond_to_proposal call
RECURSIVE EntriesOf(_)
EntriesOf(calls) ==
    IF calls = <<>> THEN <<>>
    ELSE LET c == calls[Len(calls)]
             earlier == EntriesOf(SubSeq(calls, 1, Len(calls) - 1))
         IN  CASE c.method = "run_scheduler_agent" /\ "answer" \in DOMAIN c ->
                      Append(earlier, HistoryEntry(0, "scheduler", "initial_proposal", c.answer))
               [] c.method = "respond_to_proposal" ->
                      Append(earlier, HistoryEntry(c.context.round, c.callee, "respond", c.answer))
               [] OTHER -> earlier

\* the position in policy_calls of the n-th scheduler call
SchedulerCallAt(n) ==
    CHOOSE k \in DOMAIN policy_calls :
        /\ policy_calls[k].method = "run_scheduler_agent"
        /\ Len(SelectSeq(SubSeq(policy_calls, 1, k),
                         LAMBDA c : c.method = "run_scheduler_agent")) = n

\* the entries the first negotiation on the orchestrator produced
FirstNegotiation == EntriesOf(SubSeq(policy_calls, 1, SchedulerCallAt(2) - 1))

\* C29: history is per orchestrator, not per negotiation. The history holds
\* the entries of every negotiation run on the orchestrator so far, in
\* order; every outcome returned so far carries that same history; so after
\* a second call the second outcome's history starts with all entries of
\* the first negotiation, and the first outcome's history has grown to the
\* same list.
C29_HistoryPerInstance ==
    /\ negotiation_history = EntriesOf(policy_calls)
    /\ \A i \in DOMAIN returned :
          /\ returned[i].history = negotiation_history
          /\ returned[i].negotiation_history = negotiation_history
    /\ Len(SchedulerCalls) >= 2 =>
          /\ IsPrefix(FirstNegotiation, negotiation_history)
          /\ \A i \in DOMAIN returned : IsPrefix(FirstNegotiation, returned[i].history)

\* two negotiations have returned on one orchestrator; the first one failed
\* after three rounds, the second one found consensus in its first round
C29_Witness ==
    /\ pc = "done"
    /\ Len(returned) = 2
    /\ returned[1].status = "failed"
    /\ returned[2].status = "success"
    /\ Len(FirstNegotiation) = 4
    /\ Len(returned[2].history) = 6
    /\ returned[1].history = returned[2].history
    /\ returned[2].history[5].round = 0

\* the slot run_negotiation proposes in round 1 when it is passed the list
\* cands and the scheduler answers d
FirstSlot(cands, d) ==
    LET pos == ProposedPosition(d, cands)
    IN  NormalizeSlot(IF pos = 0 THEN BuiltInSlot ELSE cands[pos], d)

\* the orchestrator with attributes and locals o behaves as it does alone:
\* its history holds the entries of its own policy calls and of its own
\* participants only, and the slot it proposes in round 1 is the one that
\* follows from the list it was passed and from its scheduler's answer
AsAlone(o) ==
    /\ o.negotiation_history = EntriesOf(o.policy_calls)
    /\ \A k \in DOMAIN o.negotiation_history :
          o.negotiation_history[k].agent \in Range(o.participants) \cup {"scheduler"}
    /\ \A k \in DOMAIN o.policy_calls :
          LET c == o.policy_calls[k]
          IN  (c.method = "respond_to_proposal" /\ c.context.round = 1) =>
                  c.proposed_slot = FirstSlot(o.given, o.initial_decision)
    /\ \A k \in DOMAIN o.returned :
          (o.returned[k].status = "success" /\ o.returned[k].rounds_completed = 1) =>
              o.returned[k].final_slot = FirstSlot(o.given, o.initial_decision)

\* C21 (as claimed): two orchestrators whose steps are interleaved do not
\* share state: the history, the participants and the outcome of each are
\* what they are when it runs alone, and no entry of one negotiation is in
\* the history of the other.
C21_NoSharedState ==
    /\ AsAlone(Active)
    /\ AsAlone(other)
    /\ (Range(participants) \cap Range(other.participants) = {}) =>
          Range(negotiation_history) \cap Range(other.negotiation_history)
              \subseteq {e \in Range(negotiation_history) : e.agent = "scheduler"}

====
